---- MODULE Spec2Model ----
(***************************************************************************)
(* A model of limix_inference: the optimization wrappers LMM and FastLMM   *)
(* (lmm/lmm.py, lmm/fastlmm/fastlmm.py), their heritability decomposition, *)
(* and the latent_variance capability of the exponential-family            *)
(* likelihoods (lik/expfam.py).                                            *)
(*                                                                         *)
(* Real numbers are fixed point: delta is held in millionths (Unit = 1.0). *)
(* A scale is symbolic, [k |-> "set", v |-> n] for a number given by the   *)
(* caller and [k |-> "analytic", v |-> d] for the closed-form estimate at  *)
(* delta d.  The cached terms of the Core are named by the delta and the   *)
(* scale they were computed for.                                           *)
(***************************************************************************)
EXTENDS Integers, Sequences, FiniteSets, TLC

VARIABLES pc, cls, y, logistic, logisticFixed, fixDict, wscale, core, last,
          userFixed, assigned, setHist, hrd, lik, likOut

\* the wrapper under optimization; userFixed, assigned and setHist record what
\* the caller did (names fixed, whether a delta was assigned, the scale set)
wvars == <<pc, cls, y, logistic, logisticFixed, fixDict, wscale, core, last,
           userFixed, assigned, setHist>>

\* a read of heritability; a likelihood instance and the last access to it
pvars == <<hrd, lik, likOut>>

vars == <<wvars, pvars>>

----------------------------------------------------------------------------
(* Bounds of the model. *)

MaxLogistic == 21
MaxEvals == 2
MaxScale == 1
NObs == 2

(* Program constants. *)

LogisticClip == 20
DeltaLo == 10

Unit == 10 ^ 6
DeltaHi == Unit - DeltaLo

----------------------------------------------------------------------------
(* Inputs. *)

\* values of the free parameter the optimizer may try: beyond the [-20, 20]
\* clip, where only the [1e-5, 1-1e-5] clip acts (-12), and where none acts
LogisticVals == {-MaxLogistic, -12, 0, 11, MaxLogistic}

FixNames == {"delta", "scale", "foo"}
Recognised == {"delta", "scale"}

Fin(n) == [k |-> "fin", v |-> n]
NaN == [k |-> "nan", v |-> 0]
PosInf == [k |-> "inf", v |-> 1]
NegInf == [k |-> "inf", v |-> -1]
YVals == {Fin(2), NaN, PosInf, NegInf}
Outcomes == [1..NObs -> YVals]

SetScale(v) == [k |-> "set", v |-> v]
AnalyticScale(d) == [k |-> "analytic", v |-> d]
NoScale == [k |-> "none", v |-> 0]
NoTerms == [d |-> -1, s |-> NoScale]
EmptyDict == [n \in {} |-> FALSE]

----------------------------------------------------------------------------
(* The logistic reparameterization of delta. *)

Clip(x, lo, hi) == IF x < lo THEN lo ELSE IF x > hi THEN hi ELSE x

\* 1 / (1 + exp(-v)) in millionths, v = 0 .. 20, rounded to nearest
ExpitTable ==
  <<500000, 731059, 880797, 952574, 982014, 993307, 997527, 999089, 999665,
    999877, 999955, 999983, 999994, 999998, 999999, 1000000, 1000000,
    1000000, 1000000, 1000000, 1000000>>

Expit(v) == IF v >= 0 THEN ExpitTable[v + 1] ELSE Unit - ExpitTable[1 - v]

DeltaNoClip(l) == Expit(Clip(l, -LogisticClip, LogisticClip))

LMM_get_delta(l) ==
  Clip(Expit(Clip(l, -LogisticClip, LogisticClip)), DeltaLo, DeltaHi)

FastLMM_delta(l) ==
  Clip(Expit(Clip(l, -LogisticClip, LogisticClip)), DeltaLo, DeltaHi)

WrapperDelta(l) == IF cls = "LMM" THEN LMM_get_delta(l) ELSE FastLMM_delta(l)

----------------------------------------------------------------------------
(* The Mixed-Model Core (LMMCore / FastLMMCore). *)

InitDelta == Unit \div 2

CoreInit ==
  [delta |-> InitDelta, scale |-> AnalyticScale(InitDelta), fix_scale |-> FALSE,
   valid_update |-> FALSE, terms |-> NoTerms]

\* the delta setter: the cached terms no longer belong to the Core's delta
CoreSetDelta(c, d) == [c EXCEPT !.delta = d, !.valid_update = FALSE]

\* the analytic (profile-maximizing) scale for the Core's delta
CoreScaleGet(c) == AnalyticScale(c.delta)

\* update() recomputes the cached terms, for the Core's delta and the scale
\* sc in force, unless they are flagged valid
CoreUpdate(c, sc) ==
  IF c.valid_update THEN c
  ELSE [c EXCEPT !.terms = [d |-> c.delta, s |-> sc], !.scale = sc,
                 !.valid_update = TRUE]

CoreFixScale(c) == [c EXCEPT !.fix_scale = TRUE]
CoreUnfixScale(c) == [c EXCEPT !.fix_scale = FALSE]
CoreInvalidate(c) == [c EXCEPT !.valid_update = FALSE]

----------------------------------------------------------------------------
(* LMM.scale, and the scale in force in either wrapper. *)

LMMScaleIgnoresFix(fd, ws, c) == CoreScaleGet(c)

LMMScaleGet(fd, ws, c) == IF fd["scale"] THEN ws ELSE CoreScaleGet(c)

FastLMMCoreScale(c) == IF c.fix_scale THEN c.scale ELSE CoreScaleGet(c)

EffScale(c) ==
  IF cls = "LMM" THEN LMMScaleGet(fixDict, wscale, c) ELSE FastLMMCoreScale(c)

\* lml() of the Core: refreshes the cached terms when they are not flagged
\* valid, then evaluates the likelihood from them
CoreLml(c) == CoreUpdate(c, EffScale(c))

----------------------------------------------------------------------------
(* Construction. *)

IsAllFinite(yy) == \A i \in 1..Len(yy) : yy[i].k = "fin"

InitCheckNaNOnly(yy) == \A i \in 1..Len(yy) : yy[i].k # "nan"

LMMInitCheck(yy) == IsAllFinite(yy)

FastLMMInitCheck(yy) == IsAllFinite(yy)

Rec(op, name, out, ret) == [op |-> op, name |-> name, out |-> out, ret |-> ret]

\* LMM.__init__
LMMInit(yy) ==
  /\ pc = "new"
  /\ y' = yy
  /\ cls' = "LMM"
  /\ IF LMMInitCheck(yy)
       THEN /\ pc' = "ready"
            /\ fixDict' = [n \in {"beta", "scale"} |-> FALSE]
            /\ wscale' = CoreScaleGet(CoreInit)
            /\ setHist' = CoreScaleGet(CoreInit)
            /\ last' = Rec("init", "", "ok", NoTerms)
       ELSE /\ pc' = "failed"
            /\ last' = Rec("init", "", "ValueError", NoTerms)
            /\ UNCHANGED <<fixDict, wscale, setHist>>
  /\ UNCHANGED <<logistic, logisticFixed, core, userFixed, assigned>>
  /\ UNCHANGED pvars

\* FastLMM.__init__
FastLMMInit(yy) ==
  /\ pc = "new"
  /\ y' = yy
  /\ cls' = "FastLMM"
  /\ IF FastLMMInitCheck(yy)
       THEN /\ pc' = "ready"
            /\ last' = Rec("init", "", "ok", NoTerms)
       ELSE /\ pc' = "failed"
            /\ last' = Rec("init", "", "ValueError", NoTerms)
  /\ UNCHANGED <<logistic, logisticFixed, fixDict, wscale, core, userFixed,
                 assigned, setHist>>
  /\ UNCHANGED pvars

----------------------------------------------------------------------------
(* fix / unfix. *)

DictSet(fd, name, b) ==
  [n \in (DOMAIN fd) \cup {name} |-> IF n = name THEN b ELSE fd[n]]

LMMFixForgetsLogistic(name, cur) == cur

\* the fixed flag of the 'logistic' variable after LMM.fix(name)
LMMFixLogistic(name, cur) == IF name = "delta" THEN TRUE ELSE cur

LMMUnfixLogistic(name, cur) == IF name = "delta" THEN FALSE ELSE cur

\* LMM._fix after LMM.fix(name) / LMM.unfix(name)
LMMFixDict(fd, name, b) == IF name = "delta" THEN fd ELSE DictSet(fd, name, b)

\* LMM.fix
LMMFix(name) ==
  /\ pc = "ready" /\ cls = "LMM"
  /\ logisticFixed' = LMMFixLogistic(name, logisticFixed)
  /\ fixDict' = LMMFixDict(fixDict, name, TRUE)
  /\ userFixed' = IF name \in Recognised THEN userFixed \cup {name} ELSE userFixed
  /\ last' = Rec("fix", name, "ok", NoTerms)
  /\ UNCHANGED <<pc, cls, y, logistic, wscale, core, assigned, setHist>>
  /\ UNCHANGED pvars

\* LMM.unfix
LMMUnfix(name) ==
  /\ pc = "ready" /\ cls = "LMM"
  /\ logisticFixed' = LMMUnfixLogistic(name, logisticFixed)
  /\ fixDict' = LMMFixDict(fixDict, name, FALSE)
  /\ userFixed' = userFixed \ {name}
  /\ last' = Rec("unfix", name, "ok", NoTerms)
  /\ UNCHANGED <<pc, cls, y, logistic, wscale, core, assigned, setHist>>
  /\ UNCHANGED pvars

\* FastLMM.fix
FastLMMFix(name) ==
  /\ pc = "ready" /\ cls = "FastLMM"
  /\ IF name = "delta"
       THEN /\ logisticFixed' = TRUE
            /\ core' = CoreInvalidate(core)
            /\ userFixed' = userFixed \cup {name}
            /\ last' = Rec("fix", name, "ok", NoTerms)
       ELSE IF name = "scale"
       THEN /\ core' = CoreInvalidate(CoreFixScale(core))
            /\ userFixed' = userFixed \cup {name}
            /\ last' = Rec("fix", name, "ok", NoTerms)
            /\ UNCHANGED logisticFixed
       ELSE /\ last' = Rec("fix", name, "ValueError", NoTerms)
            /\ UNCHANGED <<logisticFixed, core, userFixed>>
  /\ UNCHANGED <<pc, cls, y, logistic, fixDict, wscale, assigned, setHist>>
  /\ UNCHANGED pvars

\* FastLMM.unfix
FastLMMUnfix(name) ==
  /\ pc = "ready" /\ cls = "FastLMM"
  /\ IF name = "delta"
       THEN /\ logisticFixed' = FALSE
            /\ core' = CoreInvalidate(core)
            /\ userFixed' = userFixed \ {name}
            /\ last' = Rec("unfix", name, "ok", NoTerms)
       ELSE IF name = "scale"
       THEN /\ core' = CoreInvalidate(CoreUnfixScale(core))
            /\ userFixed' = userFixed \ {name}
            /\ last' = Rec("unfix", name, "ok", NoTerms)
            /\ UNCHANGED logisticFixed
       ELSE /\ last' = Rec("unfix", name, "ValueError", NoTerms)
            /\ UNCHANGED <<logisticFixed, core, userFixed>>
  /\ UNCHANGED <<pc, cls, y, logistic, fixDict, wscale, assigned, setHist>>
  /\ UNCHANGED pvars

----------------------------------------------------------------------------
(* The scale property of LMM. *)

\* LMM.scale (setter)
LMMScaleSet(v) ==
  /\ pc = "ready" /\ cls = "LMM"
  /\ wscale' = SetScale(v)
  /\ setHist' = SetScale(v)
  /\ last' = Rec("scale_set", "", "ok", NoTerms)
  /\ UNCHANGED <<pc, cls, y, logistic, logisticFixed, fixDict, core, userFixed,
                 assigned>>
  /\ UNCHANGED pvars

\* LMM.scale (getter); the value read is recorded in last.ret.s
LMMScaleRead ==
  /\ pc = "ready" /\ cls = "LMM"
  /\ last' = Rec("scale_get", "", "ok",
                 [d |-> -1, s |-> LMMScaleGet(fixDict, wscale, core)])
  /\ UNCHANGED <<pc, cls, y, logistic, logisticFixed, fixDict, wscale, core,
                 userFixed, assigned, setHist>>
  /\ UNCHANGED pvars

----------------------------------------------------------------------------
(* value / lml / learn. *)

LMMValueNoAssign(c, l) == CoreLml(c)

\* the Core after LMM.value(): delta assigned, then lml() read
LMMValue(c, l) == CoreLml(CoreSetDelta(c, LMM_get_delta(l)))

\* the Core after LMM.lml()
LMMLml(c, l) == CoreLml(CoreSetDelta(c, LMM_get_delta(l)))

\* the Core after FastLMM.value()
FastLMMValue(c, l) == CoreLml(CoreSetDelta(c, FastLMM_delta(l)))

\* the Core after FastLMM.lml()
FastLMMLml(c, l) == CoreLml(CoreSetDelta(c, FastLMM_delta(l)))

WrapperValue(c, l) == IF cls = "LMM" THEN LMMValue(c, l) ELSE FastLMMValue(c, l)

WrapperLml(c, l) == IF cls = "LMM" THEN LMMLml(c, l) ELSE FastLMMLml(c, l)

Value ==
  /\ pc = "ready"
  /\ core' = WrapperValue(core, logistic)
  /\ last' = Rec("value", "", "ok", core'.terms)
  /\ assigned' = TRUE
  /\ UNCHANGED <<pc, cls, y, logistic, logisticFixed, fixDict, wscale,
                 userFixed, setHist>>
  /\ UNCHANGED pvars

Lml ==
  /\ pc = "ready"
  /\ core' = WrapperLml(core, logistic)
  /\ last' = Rec("lml", "", "ok", core'.terms)
  /\ assigned' = TRUE
  /\ UNCHANGED <<pc, cls, y, logistic, logisticFixed, fixDict, wscale,
                 userFixed, setHist>>
  /\ UNCHANGED pvars

\* the scalar maximizer: the points at which it evaluates value(), in order
EvalSeqs ==
  IF logisticFixed
    THEN {[i \in 1..n |-> logistic] : n \in 0..MaxEvals}
    ELSE UNION {[1..n -> LogisticVals] : n \in 1..MaxEvals}

\* the Core after the maximizer evaluated value() at each point of pts
RECURSIVE Evaluate(_, _)
Evaluate(c, pts) ==
  IF pts = <<>> THEN c
  ELSE Evaluate(WrapperValue(c, Head(pts)), Tail(pts))

\* the Core when learn() returns: update(), then the delta of the result l
LMMLearnEnd(c, l) == CoreSetDelta(CoreUpdate(c, EffScale(c)), LMM_get_delta(l))

FastLMMLearnEnd(c, l) ==
  CoreSetDelta(CoreUpdate(c, EffScale(c)), FastLMM_delta(l))

LearnEnd(c, l) == IF cls = "LMM" THEN LMMLearnEnd(c, l) ELSE FastLMMLearnEnd(c, l)

\* learn(): the maximizer evaluates value() at pts and leaves the free
\* parameter at one of the points it evaluated (at its own value when fixed)
Learn ==
  /\ pc = "ready"
  /\ \E pts \in EvalSeqs :
       \E l \in (IF logisticFixed THEN {logistic} ELSE {pts[i] : i \in 1..Len(pts)}) :
          /\ logistic' = l
          /\ core' = LearnEnd(Evaluate(core, pts), l)
  /\ last' = Rec("learn", "", "ok", NoTerms)
  /\ assigned' = TRUE
  /\ UNCHANGED <<pc, cls, y, logisticFixed, fixDict, wscale, userFixed, setHist>>
  /\ UNCHANGED pvars

----------------------------------------------------------------------------

(* Heritability and the variance decomposition (a read of the wrapper). *)

MaxHScale == 3
MaxM == 1

RECURSIVE SumSeq(_)
SumSeq(m) == IF m = <<>> THEN 0 ELSE Head(m) + SumSeq(Tail(m))

RECURSIVE SumSq(_)
SumSq(m) == IF m = <<>> THEN 0 ELSE Head(m) * Head(m) + SumSq(Tail(m))

\* m.var() times N^2 (the population variance, N = Len(m))
MVarN2(m) == Len(m) * SumSq(m) - SumSeq(m) * SumSeq(m)

\* scale * (1 - delta) and scale * delta, in millionths
GeneticVariance(s, d) == s * (Unit - d)

EnvironmentalVariance(s, d) == s * d

\* float division: 0/0 is nan, x/0 is inf, no exception
Div(a, b) ==
  IF b # 0 THEN [k |-> "num", num |-> a, den |-> b]
  ELSE IF a = 0 THEN [k |-> "nan", num |-> 0, den |-> 0]
  ELSE [k |-> "inf", num |-> a, den |-> 0]

\* LMM.heritability, every term in units of 1 / (Unit * N^2)
LMMHeritability(m, s, d) ==
  LET n2 == Len(m) * Len(m)
      g == n2 * GeneticVariance(s, d)
      t == Unit * MVarN2(m) + g + n2 * EnvironmentalVariance(s, d)
  IN Div(g, t)

\* FastLMM.heritability
FastLMMHeritability(m, s, d) ==
  LET n2 == Len(m) * Len(m)
      g == n2 * GeneticVariance(s, d)
      t == Unit * MVarN2(m) + g + n2 * EnvironmentalVariance(s, d)
  IN Div(g, t)

HDeltas == {LMM_get_delta(l) : l \in LogisticVals}
HMeans == [1..NObs -> 0..MaxM]

NoRead == [op |-> "none", cls |-> "none", m |-> <<>>, s |-> 0, d |-> 0,
           out |-> Div(0, 1)]

ReadLMMHeritability(m, s, d) ==
  /\ hrd' = [op |-> "heritability", cls |-> "LMM", m |-> m, s |-> s, d |-> d,
             out |-> LMMHeritability(m, s, d)]
  /\ UNCHANGED <<wvars, lik, likOut>>

ReadFastLMMHeritability(m, s, d) ==
  /\ hrd' = [op |-> "heritability", cls |-> "FastLMM", m |-> m, s |-> s, d |-> d,
             out |-> FastLMMHeritability(m, s, d)]
  /\ UNCHANGED <<wvars, lik, likOut>>

----------------------------------------------------------------------------
(* latent_variance of the exponential-family likelihoods. *)

MaxOutcome == 2
MaxTrials == 2

Links == {"logit", "probit"}

\* the latent_variance property of a link, in millionths: pi^2 / 3 for the
\* logit link, 1 for the probit link
LinkLatentVariance(link) == IF link = "logit" THEN 3289868 ELSE Unit

NoLik == [variant |-> "none", link |-> "none", outcome |-> -1, ntrials |-> 0]
NoAccess == [op |-> "none", out |-> "none", val |-> 0]

\* DeltaLik.__init__ (link defaults to None)
NewDeltaLik(link) ==
  /\ lik' = [variant |-> "Delta", link |-> link, outcome |-> -1, ntrials |-> 0]
  /\ likOut' = [op |-> "new", out |-> "ok", val |-> 0]
  /\ UNCHANGED <<wvars, hrd>>

\* BernoulliLik.__init__
NewBernoulliLik(link) ==
  /\ lik' = [variant |-> "Bernoulli", link |-> link, outcome |-> -1, ntrials |-> 0]
  /\ likOut' = [op |-> "new", out |-> "ok", val |-> 0]
  /\ UNCHANGED <<wvars, hrd>>

\* BinomialLik.__init__
NewBinomialLik(n, link) ==
  /\ lik' = [variant |-> "Binomial", link |-> link, outcome |-> -1, ntrials |-> n]
  /\ likOut' = [op |-> "new", out |-> "ok", val |-> 0]
  /\ UNCHANGED <<wvars, hrd>>

\* PoissonLik.__init__
NewPoissonLik(link) ==
  /\ lik' = [variant |-> "Poisson", link |-> link, outcome |-> -1, ntrials |-> 0]
  /\ likOut' = [op |-> "new", out |-> "ok", val |-> 0]
  /\ UNCHANGED <<wvars, hrd>>

\* the outcome / nsuccesses / noccurrences setter
SetOutcome(v) ==
  /\ lik.variant # "none"
  /\ lik' = [lik EXCEPT !.outcome = v]
  /\ likOut' = [op |-> "set", out |-> "ok", val |-> 0]
  /\ UNCHANGED <<wvars, hrd>>

\* the attribute access lik.latent_variance, per variant
DeltaLatentVarianceGet(l) == [op |-> "get", out |-> "bound method", val |-> 0]

BernoulliLatentVarianceGet(l) ==
  [op |-> "get", out |-> "value", val |-> LinkLatentVariance(l.link)]

BinomialLatentVarianceGet(l) ==
  [op |-> "get", out |-> "NotImplementedError", val |-> 0]

PoissonLatentVarianceGet(l) ==
  [op |-> "get", out |-> "NotImplementedError", val |-> 0]

LatentVarianceGet(l) ==
  CASE l.variant = "Delta" -> DeltaLatentVarianceGet(l)
    [] l.variant = "Bernoulli" -> BernoulliLatentVarianceGet(l)
    [] l.variant = "Binomial" -> BinomialLatentVarianceGet(l)
    [] l.variant = "Poisson" -> PoissonLatentVarianceGet(l)

\* lik.latent_variance
GetLatentVariance ==
  /\ lik.variant # "none"
  /\ likOut' = LatentVarianceGet(lik)
  /\ UNCHANGED <<wvars, hrd, lik>>

\* lik.latent_variance(): the attribute access, then a call of what it gave
CallLatentVariance ==
  /\ lik.variant # "none"
  /\ likOut' =
       LET g == LatentVarianceGet(lik)
       IN CASE g.out = "bound method" ->
                 [op |-> "call", out |-> "NotImplementedError", val |-> 0]
            [] g.out = "value" -> [op |-> "call", out |-> "TypeError", val |-> 0]
            [] OTHER -> [op |-> "call", out |-> g.out, val |-> 0]
  /\ UNCHANGED <<wvars, hrd, lik>>

----------------------------------------------------------------------------

Init ==
  /\ pc = "new"
  /\ cls = "none"
  /\ y = <<>>
  /\ logistic = 0
  /\ logisticFixed = FALSE
  /\ fixDict = EmptyDict
  /\ wscale = NoScale
  /\ core = CoreInit
  /\ last = Rec("none", "", "ok", NoTerms)
  /\ userFixed = {}
  /\ assigned = FALSE
  /\ setHist = NoScale
  /\ hrd = NoRead
  /\ lik = NoLik
  /\ likOut = NoAccess

Next ==
  \/ \E yy \in Outcomes : LMMInit(yy)
  \/ \E yy \in Outcomes : FastLMMInit(yy)
  \/ \E name \in FixNames : LMMFix(name)
  \/ \E name \in FixNames : LMMUnfix(name)
  \/ \E name \in FixNames : FastLMMFix(name)
  \/ \E name \in FixNames : FastLMMUnfix(name)
  \/ \E v \in 0..MaxScale : LMMScaleSet(v)
  \/ LMMScaleRead
  \/ Value
  \/ Lml
  \/ Learn

Spec == Init /\ [][Next]_vars

NextH ==
  \/ \E m \in HMeans, s \in 0..MaxHScale, d \in HDeltas : ReadLMMHeritability(m, s, d)
  \/ \E m \in HMeans, s \in 0..MaxHScale, d \in HDeltas :
        ReadFastLMMHeritability(m, s, d)

SpecH == Init /\ [][NextH]_vars

NextLik ==
  \/ \E link \in Links \cup {"none"} : NewDeltaLik(link)
  \/ \E link \in Links : NewBernoulliLik(link)
  \/ \E n \in 1..MaxTrials, link \in Links : NewBinomialLik(n, link)
  \/ \E link \in Links : NewPoissonLik(link)
  \/ \E v \in 0..MaxOutcome : SetOutcome(v)
  \/ GetLatentVariance
  \/ CallLatentVariance

SpecLik == Init /\ [][NextLik]_vars

----------------------------------------------------------------------------
(* C1: on LMM and FastLMM, fix(name) and unfix(name) with a name other than
   'delta' and 'scale' raise an error. *)
C1_UnknownNameRaises ==
  (last.op \in {"fix", "unfix"} /\ last.name \notin Recognised)
     => last.out = "ValueError"

(* C2: after every successful fix(name) or unfix(name) with name 'delta' or
   'scale', the cached-validity flag of the Core is invalid. *)
C2_FixInvalidates ==
  (last.op \in {"fix", "unfix"} /\ last.name \in Recognised /\ last.out = "ok")
     => ~core.valid_update

(* C3: constructing LMM or FastLMM with an outcome y holding a non-finite value
   fails with the invalid-input error, and no wrapper exists for such a y. *)
C3_NonFiniteRejected ==
  /\ pc = "ready" => IsAllFinite(y)
  /\ (pc # "new" /\ ~IsAllFinite(y)) =>
        (pc = "failed" /\ last = Rec("init", "", "ValueError", NoTerms))

C3_Witness ==
  /\ pc = "failed" /\ cls = "FastLMM"
  /\ y[1] = Fin(2) /\ y[NObs] = PosInf

(* C4: whatever the free logistic parameter, the delta that value(), lml() and
   learn() assign into the Core, and the delta of every cached term, lies in
   [1e-5, 1 - 1e-5]; it is never 0 or 1. *)
C4_DeltaClipped ==
  /\ assigned => (core.delta \in DeltaLo..DeltaHi /\ core.delta \notin {0, Unit})
  /\ core.terms # NoTerms => core.terms.d \in DeltaLo..DeltaHi

C4_Witness ==
  /\ last.op = "value" /\ logistic = MaxLogistic /\ core.delta = DeltaHi

(* C5: when the caller has fixed both 'delta' and 'scale' (and a delta has been
   assigned by an earlier lml(), value() or learn()), a learn() step leaves the
   free logistic parameter, the Core's delta and the scale unchanged, and
   lml() returns after it what it returned before it. *)
C5_LearnAllFixed ==
  [][(pc = "ready" /\ userFixed = Recognised /\ assigned /\ last'.op = "learn")
       => /\ logistic' = logistic
          /\ core'.delta = core.delta
          /\ EffScale(core)' = EffScale(core)
          /\ WrapperLml(core, logistic)'.terms = WrapperLml(core, logistic).terms]_vars

C5_Witness ==
  /\ last.op = "learn" /\ userFixed = Recognised /\ cls = "LMM"
  /\ logistic = 11 /\ wscale = SetScale(1)

(* C6: when learn() returns, the Core's delta is the clipped logistic transform
   of the free parameter and its cached terms are those of update() for that
   delta and the scale in force. *)
C6_LearnConsistent ==
  last.op = "learn" =>
    /\ core.delta = WrapperDelta(logistic)
    /\ core.terms = [d |-> core.delta, s |-> EffScale(core)]

(* C7: every value returned by value() or lml() is computed from cached terms
   that update() computed for the Core's current delta, the transform of the
   current free parameter, and for the scale in force. *)
C7_ReadsAreFresh ==
  last.op \in {"value", "lml"} =>
    /\ core.delta = WrapperDelta(logistic)
    /\ last.ret = [d |-> core.delta, s |-> EffScale(core)]

C7_Witness ==
  /\ last.op = "value" /\ cls = "LMM" /\ logistic = 11
  /\ fixDict["scale"] /\ last.ret = [d |-> LMM_get_delta(11), s |-> SetScale(1)]

(* C8: heritability is defined and lies in [0, 1] for every delta in
   [1e-5, 1 - 1e-5], every scale >= 0 and every fitted mean m. *)
C8_HeritabilityInUnit ==
  hrd.op = "heritability" =>
    (hrd.out.k = "num" /\ 0 <= hrd.out.num /\ hrd.out.num <= hrd.out.den)

(* C9: lik.latent_variance raises the unimplemented-capability error for the
   Delta, Binomial and Poisson variants, whatever outcome and link are set,
   and yields the link's latent_variance for the Bernoulli variant. *)
C9_LatentVariance ==
  likOut.op = "get" =>
    IF lik.variant = "Bernoulli"
      THEN likOut.out = "value" /\ likOut.val = LinkLatentVariance(lik.link)
      ELSE likOut.out = "NotImplementedError"

(* C10: on LMM, a read of scale while the caller has 'scale' fixed gives the
   value last set through the setter (the one captured at construction if none
   was set), whatever delta has become; a read while 'scale' is not fixed gives
   the analytic estimate for the Core's current delta. *)
C10_ScaleRead ==
  last.op = "scale_get" =>
    last.ret.s = (IF "scale" \in userFixed THEN setHist
                  ELSE AnalyticScale(core.delta))

C10_Witness ==
  /\ last.op = "scale_get" /\ "scale" \in userFixed
  /\ last.ret.s = SetScale(1) /\ core.delta = DeltaLo

====
